---- MODULE Spec2Model ----
(***************************************************************************)
(* Model of the news service of src/sync_api.py (blocking handlers) and    *)
(* src/async_api.py (non-blocking handlers).  Both modules talk to the     *)
(* same MongoDB collection news_db.articles; the collection is modelled as *)
(* the sequence of its documents in natural (insertion) order.             *)
(***************************************************************************)
EXTENDS Integers, Sequences, FiniteSets, TLC

\* ------------------------------------------------------------------ bounds
\* Longest "articles" list one remote response carries.
MaxBatch == 2

\* Longest "articles" list of a response in the two-request race.
MaxRaceBatch == 2

\* ------------------------------------------------------- program constants
\* The only status the handlers accept (response.status_code != 200).
HTTP_OK == 200

\* Python's None / JSON null.
None == "None"

\* Statuses the remote source may answer with.
Statuses == {200, 204, 404, 500}

\* The keys of the document built in the loop body.
DocKeys ==
  {"source", "author", "title", "description", "url", "urlToImage",
   "publishedAt", "content"}

\* ------------------------------------------------------------ remote data
Urls == {"u1", "u2"}

\* A remote item carrying every key.
FullArticle(u) ==
  [source |-> [id |-> "bbc", name |-> "BBC"], author |-> "ann", title |-> "A",
   description |-> "d1", url |-> u, urlToImage |-> "i1", publishedAt |-> "p1",
   content |-> "c1"]

\* A remote item that omits the optional keys author, description, urlToImage.
SparseArticle(u) ==
  [source |-> [name |-> "ESPN"], title |-> "B", url |-> u,
   publishedAt |-> "p2", content |-> "c2"]

\* A remote item without a "url" key.
NoUrlArticle ==
  [source |-> [name |-> "ESPN"], title |-> "B", publishedAt |-> "p2",
   content |-> "c2"]

\* A remote item without a "source" key: article["source"] raises KeyError.
NoSourceArticle == [title |-> "A", url |-> "u1"]

WellFormed == {FullArticle(u) : u \in Urls} \cup {SparseArticle(u) : u \in Urls}

Articles == WellFormed \cup {NoUrlArticle, NoSourceArticle}

SeqsUpTo(S, n) == UNION {[1..k -> S] : k \in 0..n}

\* A JSON body of the remote source: with an "articles" list, or without the key.
Bodies(S, n) == {[articles |-> b] : b \in SeqsUpTo(S, n)} \cup {[status |-> "ok"]}

\* ------------------------------------------------------------ pure helpers
\* dict.get(key): the value, or None when the key is missing.
Get(d, k) == IF k \in DOMAIN d THEN d[k] ELSE None

\* data.get("articles", [])
GetArticles(data) == IF "articles" \in DOMAIN data THEN data["articles"] ELSE <<>>

\* article["source"]["name"] raises when a key is missing.
Raises(article) ==
  ~("source" \in DOMAIN article /\ "name" \in DOMAIN article["source"])

\* The document built in the loop body (defined when ~Raises(article)).
MakeDoc(article) ==
  [source      |-> article["source"]["name"],
   author      |-> Get(article, "author"),
   title       |-> Get(article, "title"),
   description |-> Get(article, "description"),
   url         |-> Get(article, "url"),
   urlToImage  |-> Get(article, "urlToImage"),
   publishedAt |-> Get(article, "publishedAt"),
   content     |-> Get(article, "content")]

\* ------------------------------------------------------------- the store
\* ObjectId: the store's opaque identifier, a 12-byte value; n numbers the
\* identifiers in the order the store hands them out.
ObjectId(n) == [oid |-> n]

HexChars ==
  <<"0", "1", "2", "3", "4", "5", "6", "7", "8", "9", "a", "b", "c", "d", "e", "f">>

RECURSIVE Hex(_, _)
Hex(n, width) ==
  IF width = 0 THEN "" ELSE Hex(n \div 16, width - 1) \o HexChars[(n % 16) + 1]

\* str(ObjectId): the 24 hexadecimal digits of the 12 bytes.
Str(id) == Hex(id.oid, 24)

\* The filter {"url": u}: equality on the field; a null u also matches a
\* document without the field.
Matches(d, u) ==
  IF u = None THEN ("url" \notin DOMAIN d) \/ d["url"] = None
  ELSE "url" \in DOMAIN d /\ d["url"] = u

\* Mutant of FirstMatch: the filter is ignored, the first document is selected.
FirstMatchAny(coll, u) == IF Len(coll) > 0 THEN 1 ELSE 0

\* Index of the first document the filter selects, 0 when there is none.
FirstMatch(coll, u) ==
  IF \E i \in 1..Len(coll) : Matches(coll[i], u)
  THEN CHOOSE i \in 1..Len(coll) :
         /\ Matches(coll[i], u)
         /\ \A j \in 1..(i - 1) : ~Matches(coll[j], u)
  ELSE 0

\* Mutant of SetFields: fields the document already has keep their values.
SetFieldsKeepOld(old, doc) ==
  [k \in DOMAIN old \cup DOMAIN doc |-> IF k \in DOMAIN old THEN old[k] ELSE doc[k]]

\* {"$set": doc}: the fields of doc are assigned, every other field is kept.
SetFields(old, doc) ==
  [k \in DOMAIN old \cup DOMAIN doc |-> IF k \in DOMAIN doc THEN doc[k] ELSE old[k]]

\* Mutant of UpdateOne: a matched document is left as it is ($setOnInsert).
UpdateOneSetOnInsert(coll, oid, u, doc) ==
  LET i == FirstMatch(coll, u) IN
  IF i # 0
  THEN [coll   |-> coll,
        oid    |-> oid,
        result |-> [matched_count |-> 1, modified_count |-> 0, upserted_id |-> None]]
  ELSE [coll   |-> Append(coll, SetFields(("_id" :> ObjectId(oid)) @@ [url |-> u], doc)),
        oid    |-> oid + 1,
        result |-> [matched_count  |-> 0,
                    modified_count |-> 0,
                    upserted_id    |-> ObjectId(oid)]]

\* Mutant of UpdateOne: the document is inserted without looking for a match.
UpdateOneInsertAlways(coll, oid, u, doc) ==
  [coll   |-> Append(coll, SetFields(("_id" :> ObjectId(oid)) @@ [url |-> u], doc)),
   oid    |-> oid + 1,
   result |-> [matched_count  |-> 0,
               modified_count |-> 0,
               upserted_id    |-> ObjectId(oid)]]

\* collection.update_one({"url": u}, {"$set": doc}, upsert=True) as one atomic
\* step of the store: the new collection, the next free identifier and the
\* UpdateResult.
UpdateOne(coll, oid, u, doc) ==
  LET i == FirstMatch(coll, u) IN
  IF i # 0
  THEN LET new == SetFields(coll[i], doc) IN
       [coll   |-> [coll EXCEPT ![i] = new],
        oid    |-> oid,
        result |-> [matched_count  |-> 1,
                    modified_count |-> IF new = coll[i] THEN 0 ELSE 1,
                    upserted_id    |-> None]]
  ELSE LET new == SetFields(("_id" :> ObjectId(oid)) @@ [url |-> u], doc) IN
       [coll   |-> Append(coll, new),
        oid    |-> oid + 1,
        result |-> [matched_count  |-> 0,
                    modified_count |-> 0,
                    upserted_id    |-> ObjectId(oid)]]

\* ------------------------------------------------------------- responses
ErrorResponse == [error |-> "Failed to fetch news from NewsAPI"]

\* Mutant of StoredResponse: the distinct urls of the batch are counted.
StoredResponseCountsUrls(articles) ==
  [message |->
     ToString(Cardinality({Get(articles[i], "url") : i \in 1..Len(articles)}))
       \o " news articles fetched and stored."]

\* {"message": f"{len(articles)} news articles fetched and stored."}
StoredResponse(articles) ==
  [message |-> ToString(Len(articles)) \o " news articles fetched and stored."]

\* No response body: the handler has not returned, or raised.
NoResponse == [none |-> TRUE]

\* Mutant of SyncListing: documents without a url are left out.
SyncListingOnlyWithUrl(coll) ==
  LET kept == SelectSeq(coll, LAMBDA d : d["url"] # None) IN
  [i \in 1..Len(kept) |-> [kept[i] EXCEPT !["_id"] = Str(@)]]

\* GET /news, blocking: list(collection.find()), then each _id is replaced by
\* its string.
SyncListing(coll) ==
  [i \in 1..Len(coll) |-> [coll[i] EXCEPT !["_id"] = Str(@)]]

\* GET /news, non-blocking: the cursor is walked, each document has its _id
\* replaced and is appended to the list.
RECURSIVE AsyncListing(_, _, _)
AsyncListing(coll, i, acc) ==
  IF i > Len(coll) THEN acc
  ELSE AsyncListing(coll, i + 1, Append(acc, [coll[i] EXCEPT !["_id"] = Str(@)]))

\* ---------------------------------------------------------------- state
Tasks == {"t1", "t2"}

VARIABLES
  collection,  \* db.articles: the stored documents in natural order
  nextOid,     \* number of the next ObjectId the store hands out
  req,         \* per request slot: the handler's position and locals
  last,        \* history: per url, the document of the last upsert executed
  store0       \* history: per request slot, the store its request found

vars == <<collection, nextOid, req, last, store0>>

UrlKeys == Urls \cup {None}

NoDoc == [none |-> TRUE]

\* A request slot no request has used yet.
IdleReq ==
  [pc |-> "idle", mode |-> "none", kind |-> "none", status |-> 0,
   articles |-> <<>>, idx |-> 0, response |-> NoResponse, error |-> "none"]

\* A request enters its handler.
NewReq(mode, kind) == [IdleReq EXCEPT !.pc = "run", !.mode = mode, !.kind = kind]

AtRest(t) == req[t].pc = "idle"

NoStore == [coll |-> <<>>, oid |-> 0]

\* History bookkeeping: the store a request finds as its handler is entered.
Enter(t) == store0' = [store0 EXCEPT ![t] = [coll |-> collection, oid |-> nextOid]]

\* History bookkeeping: the request is over.
Leave(t) == store0' = [store0 EXCEPT ![t] = NoStore]

\* History bookkeeping: the documents of articles[from..to], in order, become
\* the last upsert of their urls.
RECURSIVE Record(_, _, _, _)
Record(h, articles, from, to) ==
  IF from > to THEN h
  ELSE LET doc == MakeDoc(articles[from]) IN
       Record([h EXCEPT ![doc.url] = doc], articles, from + 1, to)

\* ------------------------------------------- blocking handlers (sync_api)
\* Mutant of SyncLoop: the write that reports the failure has reached the store.
RECURSIVE SyncLoopFailedWriteLands(_, _, _, _, _)
SyncLoopFailedWriteLands(coll, oid, articles, i, failAt) ==
  IF i > Len(articles)
  THEN [coll |-> coll, oid |-> oid, idx |-> i, pc |-> "done", error |-> "none"]
  ELSE IF Raises(articles[i])
  THEN [coll |-> coll, oid |-> oid, idx |-> i, pc |-> "fault", error |-> "KeyError"]
  ELSE LET doc == MakeDoc(articles[i])
           r   == UpdateOne(coll, oid, doc.url, doc)
       IN IF failAt = i
          THEN [coll |-> r.coll, oid |-> r.oid, idx |-> i, pc |-> "fault",
                error |-> "store"]
          ELSE SyncLoopFailedWriteLands(r.coll, r.oid, articles, i + 1, failAt)

\* The for loop of fetch_and_store_news from record i on, run to its end.
\* failAt is the position whose update_one finds the store unreachable (0:
\* none).
RECURSIVE SyncLoop(_, _, _, _, _)
SyncLoop(coll, oid, articles, i, failAt) ==
  IF i > Len(articles)
  THEN [coll |-> coll, oid |-> oid, idx |-> i, pc |-> "done", error |-> "none"]
  ELSE IF Raises(articles[i])
  THEN [coll |-> coll, oid |-> oid, idx |-> i, pc |-> "fault", error |-> "KeyError"]
  ELSE IF failAt = i
  THEN [coll |-> coll, oid |-> oid, idx |-> i, pc |-> "fault", error |-> "store"]
  ELSE LET doc == MakeDoc(articles[i])
           r   == UpdateOne(coll, oid, doc.url, doc)
       IN SyncLoop(r.coll, r.oid, articles, i + 1, failAt)

\* Mutant of SyncFetchNewsResult: only statuses from 400 on are refused.
SyncFetchNewsResultLaxStatus(coll, oid, status, data, failAt) ==
  IF status >= 400
  THEN [coll |-> coll, oid |-> oid, pc |-> "done", status |-> status,
        articles |-> <<>>, idx |-> 0, response |-> ErrorResponse,
        error |-> "none"]
  ELSE LET articles == GetArticles(data)
           r        == SyncLoop(coll, oid, articles, 1, failAt)
       IN [coll |-> r.coll, oid |-> r.oid, pc |-> r.pc, status |-> status,
           articles |-> articles, idx |-> r.idx,
           response |-> IF r.pc = "done" THEN StoredResponse(articles)
                        ELSE NoResponse,
           error |-> r.error]

\* fetch_and_store_news of sync_api.py run to completion on the remote answer
\* (status, data).
SyncFetchNewsResult(coll, oid, status, data, failAt) ==
  IF status # HTTP_OK
  THEN [coll |-> coll, oid |-> oid, pc |-> "done", status |-> status,
        articles |-> <<>>, idx |-> 0, response |-> ErrorResponse,
        error |-> "none"]
  ELSE LET articles == GetArticles(data)
           r        == SyncLoop(coll, oid, articles, 1, failAt)
       IN [coll |-> r.coll, oid |-> r.oid, pc |-> r.pc, status |-> status,
           articles |-> articles, idx |-> r.idx,
           response |-> IF r.pc = "done" THEN StoredResponse(articles)
                        ELSE NoResponse,
           error |-> r.error]

\* Bodies that come with a status other than 200: the source's error object,
\* or a body that carries articles all the same.
ErrorBodies == {[status |-> "error"], [articles |-> <<FullArticle("u2")>>]}

\* The answers the remote source may give.
Answers(bodies) ==
  {[status |-> st, data |-> d] : st \in Statuses \ {HTTP_OK}, d \in ErrorBodies}
    \cup {[status |-> HTTP_OK, data |-> d] : d \in bodies}

\* POST /fetch-news served by sync_api.py.
SyncFetchNews(t, bodies) ==
  /\ AtRest(t)
  /\ \E ans \in Answers(bodies) :
       \E failAt \in 0..(IF ans.status = HTTP_OK THEN Len(GetArticles(ans.data)) ELSE 0) :
         LET r == SyncFetchNewsResult(collection, nextOid, ans.status, ans.data, failAt) IN
         /\ collection' = r.coll
         /\ nextOid' = r.oid
         /\ req' = [req EXCEPT ![t] =
                      [NewReq("sync", "fetch-news") EXCEPT
                         !.pc = r.pc, !.status = r.status,
                         !.articles = r.articles, !.idx = r.idx,
                         !.response = r.response, !.error = r.error]]
         /\ last' = Record(last, r.articles, 1, r.idx - 1)

\* GET /news served by sync_api.py.
SyncGetNews(t) ==
  /\ AtRest(t)
  /\ req' = [req EXCEPT ![t] =
               [NewReq("sync", "news") EXCEPT
                  !.pc = "done", !.response = SyncListing(collection)]]
  /\ UNCHANGED <<collection, nextOid, last>>

\* GET /news of sync_api.py with the store unreachable: find() raises.
SyncGetNewsFails(t) ==
  /\ AtRest(t)
  /\ req' = [req EXCEPT ![t] =
               [NewReq("sync", "news") EXCEPT !.pc = "fault", !.error = "store"]]
  /\ UNCHANGED <<collection, nextOid, last>>

\* -------------------------------------- non-blocking handlers (async_api)
\* POST /fetch-news arrives at async_api.py and runs to its first suspension
\* point, await http_client.get(API_URL).
AsyncFetchNews(t) ==
  /\ AtRest(t)
  /\ req' = [req EXCEPT ![t] =
               [NewReq("async", "fetch-news") EXCEPT !.pc = "fetch"]]
  /\ UNCHANGED <<collection, nextOid, last>>

\* The remote answer arrives with a status other than 200.
AsyncFetchError(t) ==
  /\ req[t].pc = "fetch"
  /\ \E status \in Statuses :
       /\ status # HTTP_OK
       /\ req' = [req EXCEPT ![t].pc = "done", ![t].status = status,
                             ![t].response = ErrorResponse]
  /\ UNCHANGED <<collection, nextOid, last>>

\* The remote answer arrives with status 200: the body is parsed and the
\* loop is entered.
AsyncFetchOk(t, bodies) ==
  /\ req[t].pc = "fetch"
  /\ \E data \in bodies :
       req' = [req EXCEPT ![t].pc = "loop", ![t].status = HTTP_OK,
                          ![t].articles = GetArticles(data), ![t].idx = 1]
  /\ UNCHANGED <<collection, nextOid, last>>

\* One pass of the loop body: the document is built and
\* await collection.update_one(...) completes.
AsyncUpsert(t) ==
  /\ req[t].pc = "loop"
  /\ req[t].idx <= Len(req[t].articles)
  /\ ~Raises(req[t].articles[req[t].idx])
  /\ LET doc == MakeDoc(req[t].articles[req[t].idx])
         r   == UpdateOne(collection, nextOid, doc.url, doc)
     IN /\ collection' = r.coll
        /\ nextOid' = r.oid
        /\ last' = [last EXCEPT ![doc.url] = doc]
  /\ req' = [req EXCEPT ![t].idx = @ + 1]

\* The loop body raises while building the document.
AsyncRaise(t) ==
  /\ req[t].pc = "loop"
  /\ req[t].idx <= Len(req[t].articles)
  /\ Raises(req[t].articles[req[t].idx])
  /\ req' = [req EXCEPT ![t].pc = "fault", ![t].error = "KeyError"]
  /\ UNCHANGED <<collection, nextOid, last>>

\* Mutant of AsyncUpsertFails: the failure is swallowed and the loop goes on.
AsyncUpsertFailsSwallowed(t) ==
  /\ req[t].pc = "loop"
  /\ req[t].idx <= Len(req[t].articles)
  /\ ~Raises(req[t].articles[req[t].idx])
  /\ req' = [req EXCEPT ![t].idx = @ + 1]
  /\ UNCHANGED <<collection, nextOid, last>>

\* await collection.update_one(...) raises: the store is unreachable.
AsyncUpsertFails(t) ==
  /\ req[t].pc = "loop"
  /\ req[t].idx <= Len(req[t].articles)
  /\ ~Raises(req[t].articles[req[t].idx])
  /\ req' = [req EXCEPT ![t].pc = "fault", ![t].error = "store"]
  /\ UNCHANGED <<collection, nextOid, last>>

\* The loop is exhausted and the handler returns its message.
AsyncReturn(t) ==
  /\ req[t].pc = "loop"
  /\ req[t].idx > Len(req[t].articles)
  /\ req' = [req EXCEPT ![t].pc = "done",
                        ![t].response = StoredResponse(req[t].articles)]
  /\ UNCHANGED <<collection, nextOid, last>>

\* GET /news served by async_api.py.
AsyncGetNews(t) ==
  /\ AtRest(t)
  /\ req' = [req EXCEPT ![t] =
               [NewReq("async", "news") EXCEPT
                  !.pc = "done",
                  !.response = AsyncListing(collection, 1, <<>>)]]
  /\ UNCHANGED <<collection, nextOid, last>>

\* GET /news of async_api.py with the store unreachable: the cursor raises.
AsyncGetNewsFails(t) ==
  /\ AtRest(t)
  /\ req' = [req EXCEPT ![t] =
               [NewReq("async", "news") EXCEPT !.pc = "fault", !.error = "store"]]
  /\ UNCHANGED <<collection, nextOid, last>>

\* ------------------------------------------------ POST /add-news handler
\* Request bodies of POST /add-news: title, optional description, url, source,
\* published_date.
AddArticles ==
  {[title |-> ti, description |-> de, url |-> u, source |-> "BBC",
    published_date |-> "p1"] :
     ti \in {"A", "B"}, de \in {None, "d1"}, u \in Urls}

AddedResponse == [message |-> "Article added/updated."]

NoChangesResponse == [message |-> "No changes made..."]

\* POST /add-news: the record is upserted by its url and the result of the
\* upsert chooses the message: created (nothing matched) and modified are
\* answered alike, unchanged has its own message.
AddNews(t) ==
  /\ AtRest(t)
  /\ \E article \in AddArticles :
       LET r == UpdateOne(collection, nextOid, article.url, article) IN
       /\ collection' = r.coll
       /\ nextOid' = r.oid
       /\ last' = [last EXCEPT ![article.url] = article]
       /\ req' = [req EXCEPT ![t] =
                    [NewReq("sync", "add-news") EXCEPT
                       !.pc = "done", !.articles = <<article>>, !.idx = 2,
                       !.response =
                         IF r.result.matched_count = 0 \/ r.result.modified_count > 0
                         THEN AddedResponse ELSE NoChangesResponse]]

\* The hosting layer delivers the handler's return value (or, after a raise,
\* its own server-error reply) and the request is over.
Respond(t) ==
  /\ req[t].pc \in {"done", "fault"}
  /\ req' = [req EXCEPT ![t] = IdleReq]
  /\ UNCHANGED <<collection, nextOid, last>>

\* ------------------------------------------------------- specifications
\* The collection is empty when the service is first deployed.
Init ==
  /\ collection = <<>>
  /\ nextOid = 1
  /\ req = [t \in Tasks |-> IdleReq]
  /\ last = [u \in UrlKeys |-> NoDoc]
  /\ store0 = [t \in Tasks |-> NoStore]

AllBodies == Bodies(Articles, MaxBatch)

\* Requests served one at a time, by either module, on the shared collection.
Next ==
  \/ SyncFetchNews("t1", AllBodies) /\ Enter("t1")
  \/ SyncGetNews("t1") /\ Enter("t1")
  \/ SyncGetNewsFails("t1") /\ Enter("t1")
  \/ AsyncFetchNews("t1") /\ Enter("t1")
  \/ AsyncFetchError("t1") /\ UNCHANGED store0
  \/ AsyncFetchOk("t1", AllBodies) /\ UNCHANGED store0
  \/ AsyncUpsert("t1") /\ UNCHANGED store0
  \/ AsyncRaise("t1") /\ UNCHANGED store0
  \/ AsyncUpsertFails("t1") /\ UNCHANGED store0
  \/ AsyncReturn("t1") /\ UNCHANGED store0
  \/ AsyncGetNews("t1") /\ Enter("t1")
  \/ AsyncGetNewsFails("t1") /\ Enter("t1")
  \/ Respond("t1") /\ Leave("t1")

Spec == Init /\ [][Next]_vars

\* The remote items of the two-request race.
RaceArticles == {FullArticle("u1"), SparseArticle("u1"), SparseArticle("u2")}

RaceBodies == Bodies(RaceArticles, MaxRaceBatch)

\* Two POST /fetch-news requests in flight at async_api.py, interleaved at
\* their suspension points.
NextAsync ==
  \E t \in Tasks :
    \/ AsyncFetchNews(t) /\ UNCHANGED store0
    \/ AsyncFetchError(t) /\ UNCHANGED store0
    \/ AsyncFetchOk(t, RaceBodies) /\ UNCHANGED store0
    \/ AsyncUpsert(t) /\ UNCHANGED store0
    \/ AsyncUpsertFails(t) /\ UNCHANGED store0
    \/ AsyncReturn(t) /\ UNCHANGED store0
    \/ Respond(t) /\ UNCHANGED store0

SpecAsync == Init /\ [][NextAsync]_vars

\* Single-record submissions and bulk ingestion on the shared collection.
NextAdd ==
  \/ AddNews("t1") /\ Enter("t1")
  \/ SyncFetchNews("t1", RaceBodies) /\ Enter("t1")
  \/ Respond("t1") /\ Leave("t1")

SpecAdd == Init /\ [][NextAdd]_vars

\* A store left by earlier writers of the collection: two records of one
\* url, and a record without a url field.
LegacyStore ==
  <<("_id" :> ObjectId(1)) @@
      [title |-> "A", description |-> None, url |-> "u1", source |-> "BBC",
       published_date |-> "p1"],
    ("_id" :> ObjectId(2)) @@
      [title |-> "B", description |-> "d1", url |-> "u1", source |-> "BBC",
       published_date |-> "p1"],
    ("_id" :> ObjectId(3)) @@ [title |-> "A", source |-> "BBC"]>>

InitStores == {<<>>, LegacyStore}

\* The service is started on a collection that may already hold documents.
InitAny ==
  /\ collection \in InitStores
  /\ nextOid = Len(collection) + 1
  /\ req = [t \in Tasks |-> IdleReq]
  /\ last = [u \in UrlKeys |-> NoDoc]
  /\ store0 = [t \in Tasks |-> NoStore]

SpecAny == InitAny /\ [][Next]_vars

\* ================================================================ claims
\* Positions of the stored documents whose url is u.
Holding(coll, u) == {i \in 1..Len(coll) : coll[i]["url"] = u}

\* The eight fields of a stored document (its _id left out).
Fields(d) == [k \in DocKeys |-> d[k]]

\* Last position of articles[1..n] whose document has the url of articles[j].
LastWithUrl(articles, n, j) ==
  CHOOSE m \in 1..n :
    /\ Get(articles[m], "url") = Get(articles[j], "url")
    /\ \A k \in (m + 1)..n : Get(articles[k], "url") # Get(articles[j], "url")

FetchDone(t) ==
  req[t].kind = "fetch-news" /\ req[t].pc = "done" /\ req[t].status = HTTP_OK

\* C1: in every reachable state the store holds at most one record per url.
C1_UniqueUrl ==
  \A i, j \in 1..Len(collection) :
    collection[i]["url"] = collection[j]["url"] => i = j

\* C1 witness: a request has upserted a url that was already stored, and the
\* store still holds one record for it.
C1_Witness ==
  /\ FetchDone("t1")
  /\ Len(req["t1"].articles) = 2
  /\ Get(req["t1"].articles[1], "url") = "u1"
  /\ Holding(store0["t1"].coll, "u1") # {}
  /\ Cardinality(Holding(collection, "u1")) = 1

\* C2: last write wins with full field replacement: the single stored record
\* of every url ever written equals, in all eight fields, the record of the
\* last upsert of that url; after a completed batch every url of the batch
\* holds the record of its last occurrence in the batch.
C2_LastWriteWins ==
  /\ \A u \in UrlKeys :
       last[u] # NoDoc =>
         /\ Cardinality(Holding(collection, u)) = 1
         /\ \A i \in Holding(collection, u) : Fields(collection[i]) = last[u]
  /\ \A t \in Tasks :
       FetchDone(t) =>
         \A j \in 1..Len(req[t].articles) :
           LET a == req[t].articles
               m == LastWithUrl(a, Len(a), j)
               h == Holding(collection, Get(a[j], "url"))
           IN /\ Cardinality(h) = 1
              /\ \A i \in h : Fields(collection[i]) = MakeDoc(a[m])

\* C2 witness: a batch with two records of one url and different content has
\* been stored.
C2_Witness ==
  /\ FetchDone("t1")
  /\ req["t1"].articles = <<FullArticle("u1"), SparseArticle("u1")>>
  /\ Len(collection) = 1
  /\ collection[1]["title"] = "B"
  /\ collection[1]["author"] = None

\* C3: a remote status other than 200 leaves the store as the request found
\* it, and the response carries the error field and no success message.
C3_NonSuccessWritesNothing ==
  \A t \in Tasks :
    (req[t].kind = "fetch-news" /\ req[t].status \notin {0, HTTP_OK}) =>
      /\ collection = store0[t].coll
      /\ nextOid = store0[t].oid
      /\ req[t].pc = "done"
      /\ "error" \in DOMAIN req[t].response
      /\ "message" \notin DOMAIN req[t].response

\* C3 witness: the remote source answered 204 to a request that found records
\* in the store.
C3_Witness ==
  /\ req["t1"].kind = "fetch-news"
  /\ req["t1"].status = 204
  /\ req["t1"].response = ErrorResponse
  /\ Len(collection) = 2

\* C5: GET /news returns the whole store: as many records as urls have been
\* stored, each with a non-empty string identifier and its stored fields
\* unchanged, and the store is as the request found it.
C5_ListingWhole ==
  \A t \in Tasks :
    (req[t].kind = "news" /\ req[t].pc = "done") =>
      LET r == req[t].response IN
      /\ collection = store0[t].coll
      /\ Len(r) = Len(collection)
      /\ Len(r) = Cardinality({u \in UrlKeys : last[u] # NoDoc})
      /\ \A i \in 1..Len(r) :
           /\ DOMAIN r[i] = DOMAIN collection[i]
           /\ r[i]["_id"] \in STRING
           /\ Len(r[i]["_id"]) > 0
           /\ \A k \in DOMAIN collection[i] \ {"_id"} : r[i][k] = collection[i][k]

\* C5 witness: three records with distinct urls are stored and listed.
C5_Witness ==
  /\ req["t1"].kind = "news"
  /\ req["t1"].pc = "done"
  /\ Len(req["t1"].response) = 3
  /\ Cardinality({req["t1"].response[i]["url"] : i \in 1..3}) = 3

\* C6: the number in the success message is the length of the fetched batch.
C6_CountIsBatchLength ==
  \A t \in Tasks :
    FetchDone(t) =>
      req[t].response =
        [message |-> ToString(Len(req[t].articles))
                       \o " news articles fetched and stored."]

\* C6 witness: a batch of two records was reported although the store, which
\* already held its records, did not grow.
C6_Witness ==
  /\ FetchDone("t1")
  /\ req["t1"].response = [message |-> "2 news articles fetched and stored."]
  /\ Len(collection) = Len(store0["t1"].coll)

\* Positions of req[t].articles whose upsert the step executes.
Upserted(t) ==
  IF req'[t].kind = "fetch-news" /\ req'[t].idx > req[t].idx /\ req'[t].idx > 1
  THEN (IF req[t].idx = 0 THEN 1 ELSE req[t].idx)..(req'[t].idx - 1)
  ELSE {}

\* C7: a step changes only stored records whose url is the url of a record it
\* upserts, creates or changes at most one record per upsert, and removes
\* none: every record keeps its place and identifier and the stored urls
\* only grow.
C7_FrameEffect ==
  [][/\ Len(collection') >= Len(collection)
     /\ \A i \in 1..Len(collection) :
          /\ collection'[i]["_id"] = collection[i]["_id"]
          /\ collection'[i]["url"] = collection[i]["url"]
          /\ collection'[i] # collection[i] =>
               \E t \in Tasks : \E j \in Upserted(t) :
                 Get(req'[t].articles[j], "url") = collection[i]["url"]
     /\ \A t \in Tasks :
          Cardinality(Upserted(t)) = 1 =>
            Cardinality({i \in 1..Len(collection') :
                           i > Len(collection) \/ collection'[i] # collection[i]}) <= 1
    ]_vars

\* C7 witness: an upsert has replaced the record of one url while the record
\* of another url, stored before it, is in place.
C7_Witness ==
  /\ req["t1"].mode = "async"
  /\ req["t1"].pc = "loop"
  /\ req["t1"].idx = 2
  /\ req["t1"].articles[1] = SparseArticle("u2")
  /\ Len(collection) = 2
  /\ Len(store0["t1"].coll) = 2
  /\ collection[1] = store0["t1"].coll[1]
  /\ collection[2] # store0["t1"].coll[2]

\* Urls of the documents of articles[1..n].
UrlsOf(articles, n) == {Get(articles[j], "url") : j \in 1..n}

\* C8: when the store write of record k fails, the request has raised and has
\* no response; records 1..k-1 are in the store as written, every other
\* stored record is as the request found it, and nothing else was added.
C8_WriteFailure ==
  \A t \in Tasks :
    (req[t].kind = "fetch-news" /\ req[t].pc = "fault" /\ req[t].error = "store") =>
      LET a   == req[t].articles
          k   == req[t].idx
          s0  == store0[t].coll
          pre == UrlsOf(a, k - 1)
      IN /\ req[t].response = NoResponse
         /\ k \in 1..Len(a)
         /\ \A j \in 1..(k - 1) :
              LET h == Holding(collection, Get(a[j], "url")) IN
              /\ Cardinality(h) = 1
              /\ \A i \in h :
                   Fields(collection[i]) = MakeDoc(a[LastWithUrl(a, k - 1, j)])
         /\ \A i \in 1..Len(s0) :
              s0[i]["url"] \notin pre => collection[i] = s0[i]
         /\ Len(collection) =
              Len(s0) + Cardinality({u \in pre : Holding(s0, u) = {}})

\* C8 witness: the write of the second record failed; the first record was
\* created and stays, the second is not in the store.
C8_Witness ==
  /\ req["t1"].kind = "fetch-news"
  /\ req["t1"].pc = "fault"
  /\ req["t1"].error = "store"
  /\ req["t1"].idx = 2
  /\ req["t1"].articles = <<FullArticle("u1"), SparseArticle("u2")>>
  /\ store0["t1"].coll = <<>>
  /\ Len(collection) = 1
  /\ collection[1]["url"] = "u1"

\* C9: when two concurrent POST /fetch-news requests have both completed, the
\* store holds one record per url, and the record of every url both wrote is,
\* in all fields, the record of the upsert executed last, which is the last
\* occurrence of the url in one of the two batches.
C9_RaceLastWriteWins ==
  (\A t \in Tasks : FetchDone(t)) =>
    LET a1 == req["t1"].articles
        a2 == req["t2"].articles
    IN /\ \A i, j \in 1..Len(collection) :
            collection[i]["url"] = collection[j]["url"] => i = j
       /\ \A j1 \in 1..Len(a1), j2 \in 1..Len(a2) :
            Get(a1[j1], "url") = Get(a2[j2], "url") =>
              LET h == Holding(collection, Get(a1[j1], "url")) IN
              /\ Cardinality(h) = 1
              /\ \A i \in h :
                   /\ Fields(collection[i]) = last[Get(a1[j1], "url")]
                   /\ Fields(collection[i]) \in
                        {MakeDoc(a1[LastWithUrl(a1, Len(a1), j1)]),
                         MakeDoc(a2[LastWithUrl(a2, Len(a2), j2)])}

\* C9 witness: both requests wrote u1 and u2 with different content; u1 holds
\* the record of the first request and u2 the record of the second.
C9_Witness ==
  /\ \A t \in Tasks : FetchDone(t)
  /\ req["t1"].articles = <<FullArticle("u1"), SparseArticle("u2")>>
  /\ req["t2"].articles = <<SparseArticle("u1"), SparseArticle("u2")>>
  /\ Len(collection) = 2
  /\ \A i \in Holding(collection, "u1") : collection[i]["title"] = "A"

\* C10: a request served by the non-blocking handlers ends with the response
\* and the store the blocking handler yields from the store the request
\* found, on the same remote answer and the same store failure.
C10_SameAsBlocking ==
  \A t \in Tasks :
    (req[t].mode = "async" /\ req[t].pc \in {"done", "fault"}) =>
      IF req[t].kind = "fetch-news"
      THEN LET r == SyncFetchNewsResult(
                      store0[t].coll, store0[t].oid, req[t].status,
                      [articles |-> req[t].articles],
                      IF req[t].error = "store" THEN req[t].idx ELSE 0)
           IN /\ r.coll = collection
              /\ r.oid = nextOid
              /\ r.pc = req[t].pc
              /\ r.error = req[t].error
              /\ r.response = req[t].response
      ELSE /\ collection = store0[t].coll
           /\ req[t].pc = "done" => req[t].response = SyncListing(store0[t].coll)

\* C10 witness: the non-blocking handler completed a batch of two records on
\* a store that already held documents.
C10_Witness ==
  /\ req["t1"].mode = "async"
  /\ FetchDone("t1")
  /\ Len(req["t1"].articles) = 2
  /\ store0["t1"].coll = LegacyStore
  /\ collection # LegacyStore

\* d carries every field of doc with doc's value.
Agrees(d, doc) == \A k \in DOMAIN doc : k \in DOMAIN d /\ d[k] = doc[k]

====
